---- MODULE Spec2Model ----
(***************************************************************************)
(* Model of src/data_pipeline/update_date.py: the price -> returns ->      *)
(* macro -> joined dataset -> factor pipeline of main(), and the pandas    *)
(* operations it is built from.                                            *)
(*                                                                         *)
(* A table (DataFrame) is a sequence of rows ordered by date; a row is a   *)
(* record [date |-> day number, vals |-> [column name -> cell]].           *)
(* A cell (float64) is a pair <<n, d>>:                                    *)
(*   d > 0  : the finite number n/d, in lowest terms                       *)
(*   <<0,0>>: NaN      <<1,0>>: +inf      <<-1,0>>: -inf                   *)
(*   <<0,-1>>: a finite number whose value the model does not track        *)
(*             (the rolling standard deviation, an irrational)             *)
(***************************************************************************)
EXTENDS Integers, Sequences, FiniteSets, TLC

VARIABLES
    env,          \* the environment: <<>> when FRED_API_KEY is unset, else <<value>>
    pad,          \* TRUE: the installed pandas pads in pct_change (pandas < 3)
    provider,     \* what yf.download returns: [Close |-> table]
    series,       \* what FRED holds: [indicator -> [observation dates -> value]]
    pc,           \* position in main()
    fred_key,     \* local of main
    prices, rets, macro, df,          \* locals of main (tables)
    mom30, mom90, vol30, features,    \* locals of main (tables)
    written,      \* names of the CSV files written so far
    macro_called, \* main has reached the call of the macro stage
    error         \* the exception that ended the run, "" when none

vars == <<env, pad, provider, series, pc, fred_key, prices, rets, macro, df,
          mom30, mom90, vol30, features, written, macro_called, error>>

-----------------------------------------------------------------------------
(* Bounds of the model                                                      *)

MaxRows == 3          \* rows of an enumerated provider response
ShortRows == 2        \* rows of the responses of the runs checked for termination
LongRows == 92        \* rows of a long provider response (covers both horizons)
MaxDay == 3           \* FRED observations are dated 1..MaxDay

PriceVals == {0, 1, 2}
Tickers == {"AAPL", "MSFT"}

(* Program constants                                                        *)
MOM_SHORT == 30
MOM_LONG == 90
VOL_WINDOW == 30

-----------------------------------------------------------------------------
(* float64 cells                                                            *)

NaN == <<0, 0>>
PosInf == <<1, 0>>
NegInf == <<-1, 0>>
Opaque == <<0, -1>>

Num(n) == <<n, 1>>
IsNaN(c) == c = NaN
IsFinite(c) == c[2] # 0

Abs(n) == IF n < 0 THEN -n ELSE n

RECURSIVE GCD(_, _)
GCD(a, b) == IF b = 0 THEN a ELSE GCD(b, a % b)

\* n/d for d # 0, in lowest terms with a positive denominator
Frac(n, d) ==
    LET g == GCD(Abs(n), Abs(d))
        s == IF d < 0 THEN -1 ELSE 1
    IN  <<(s * n) \div g, (s * d) \div g>>

\* the float expression  cur / prev - 1  on price cells (integers or NaN)
PctCell(cur, prev) ==
    IF IsNaN(cur) \/ IsNaN(prev) THEN NaN
    ELSE IF prev[1] = 0
         THEN IF cur[1] = 0 THEN NaN
              ELSE IF cur[1] > 0 THEN PosInf ELSE NegInf
         ELSE Frac(cur[1] - prev[1], prev[1])

-----------------------------------------------------------------------------
(* pandas operations on tables                                              *)

SetMax(S) == CHOOSE m \in S : \A x \in S : x <= m
SetMin(S) == CHOOSE m \in S : \A x \in S : m <= x

Dates(tbl) == {tbl[i].date : i \in 1..Len(tbl)}
DateSeq(tbl) == [i \in 1..Len(tbl) |-> tbl[i].date]
RowAt(tbl, d) == tbl[CHOOSE i \in 1..Len(tbl) : tbl[i].date = d]

\* the ascending sequence of the dates in the finite set S
RECURSIVE SortedSeq(_)
SortedSeq(S) ==
    IF S = {} THEN <<>>
    ELSE LET m == SetMin(S) IN <<m>> \o SortedSeq(S \ {m})

\* DataFrame.ffill(): each NaN cell takes the column's last non-NaN cell above it
Ffill(tbl) ==
    [t \in 1..Len(tbl) |->
        [date |-> tbl[t].date,
         vals |-> [c \in DOMAIN tbl[t].vals |->
                     LET seen == {j \in 1..t : ~IsNaN(tbl[j].vals[c])}
                     IN  IF seen = {} THEN NaN
                         ELSE tbl[SetMax(seen)].vals[c]]]]

\* DataFrame.shift(k): row t holds the cells of row t-k, NaN for the first k rows
Shift(tbl, k) ==
    [t \in 1..Len(tbl) |->
        [date |-> tbl[t].date,
         vals |-> [c \in DOMAIN tbl[t].vals |->
                     IF t - k >= 1 THEN tbl[t - k].vals[c] ELSE NaN]]]

\* faulty variant: pct_change called without its periods: always one row back
PctChangeOneRow(tbl, k, padding) ==
    LET data == IF padding THEN Ffill(tbl) ELSE tbl
        prev == Shift(data, 1)
    IN  [t \in 1..Len(tbl) |->
            [date |-> tbl[t].date,
             vals |-> [c \in DOMAIN tbl[t].vals |->
                         PctCell(data[t].vals[c], prev[t].vals[c])]]]

\* DataFrame.pct_change(k): data / data.shift(k) - 1, data padded first when
\* the pandas version pads (fill_method="pad")
PctChange(tbl, k, padding) ==
    LET data == IF padding THEN Ffill(tbl) ELSE tbl
        prev == Shift(data, k)
    IN  [t \in 1..Len(tbl) |->
            [date |-> tbl[t].date,
             vals |-> [c \in DOMAIN tbl[t].vals |->
                         PctCell(data[t].vals[c], prev[t].vals[c])]]]

RowHasNaN(row) == \E c \in DOMAIN row.vals : IsNaN(row.vals[c])
RowAllNaN(row) == \A c \in DOMAIN row.vals : IsNaN(row.vals[c])

\* faulty variant: only the first row is dropped, as with .iloc[1:]
DropFirstRow(tbl) == SubSeq(tbl, 2, Len(tbl))

\* DataFrame.dropna(): how="any", drops every row holding a NaN
DropnaAny(tbl) == SelectSeq(tbl, LAMBDA row : ~RowHasNaN(row))

\* DataFrame.dropna(how="all")
DropnaAll(tbl) == SelectSeq(tbl, LAMBDA row : ~RowAllNaN(row))

\* rets.rolling(w).std(): a number once the trailing w rows are all finite
\* (min_periods = w; rolling turns inf into NaN), NaN otherwise
RollingStd(tbl, w) ==
    [t \in 1..Len(tbl) |->
        [date |-> tbl[t].date,
         vals |-> [c \in DOMAIN tbl[t].vals |->
                     IF t >= w /\ \A j \in (t - w + 1)..t : IsFinite(tbl[j].vals[c])
                     THEN Opaque ELSE NaN]]]

\* new column labels  f"{c}<suffix>"
RenameCols(tbl, suffix) ==
    [t \in 1..Len(tbl) |->
        [date |-> tbl[t].date,
         vals |-> [n \in {c \o suffix : c \in DOMAIN tbl[t].vals} |->
                     tbl[t].vals[CHOOSE c \in DOMAIN tbl[t].vals : c \o suffix = n]]]]

\* DataFrame.join(other, how="left"): every row of left, once, in left's order,
\* with other's cells of the same date, NaN where other has no such date
JoinLeft(left, other, otherCols) ==
    [t \in 1..Len(left) |->
        [date |-> left[t].date,
         vals |-> left[t].vals @@
                  [c \in otherCols |->
                     IF left[t].date \in Dates(other)
                     THEN RowAt(other, left[t].date).vals[c] ELSE NaN]]]

\* pd.concat(frames, axis=1): the sorted union of the frames' dates, each
\* frame's columns NaN on the dates it lacks.  frames: sequence of
\* [tbl |-> table, cols |-> its column labels]
ConcatCols(frames) ==
    LET allDates == UNION {Dates(frames[i].tbl) : i \in 1..Len(frames)}
        allCols == UNION {frames[i].cols : i \in 1..Len(frames)}
        idx == SortedSeq(allDates)
        Owner(c) == CHOOSE i \in 1..Len(frames) : c \in frames[i].cols
    IN  [t \in 1..Len(idx) |->
            [date |-> idx[t],
             vals |-> [c \in allCols |->
                         IF idx[t] \in Dates(frames[Owner(c)].tbl)
                         THEN RowAt(frames[Owner(c)].tbl, idx[t]).vals[c]
                         ELSE NaN]]]

\* macro.resample("D").ffill(): one row per calendar day from the first to the
\* last date of tbl; the row of day d is the whole row of tbl at the last date
\* <= d (reindex(method="ffill")), NaN cells of that row included
ResampleDailyFfill(tbl) ==
    IF Len(tbl) = 0 THEN <<>>
    ELSE LET lo == tbl[1].date
             hi == tbl[Len(tbl)].date
         IN  [i \in 1..(hi - lo + 1) |->
                LET d == lo + i - 1
                    src == SetMax({j \in 1..Len(tbl) : tbl[j].date <= d})
                IN  [date |-> d, vals |-> tbl[src].vals]]

-----------------------------------------------------------------------------
(* The functions of update_date.py                                          *)

\* get_universe(): the model keeps two of the sixty tickers
get_universe == Tickers

\* download_prices: the "Close" frame of the provider's response, as it is;
\* an empty response is returned like any other
download_prices(response) == response.Close

\* compute_returns: prices.pct_change().dropna()
compute_returns(p, padding) == DropnaAny(PctChange(p, 1, padding))

\* the FRED codes get_macro fetches and the column name of each
SeriesNames == [FEDFUNDS |-> "fed_funds", CPIAUCSL |-> "cpi", DGS10 |-> "treasury_10y"]
SeriesCodes == <<"FEDFUNDS", "CPIAUCSL", "DGS10">>
MacroCols == {SeriesNames[code] : code \in DOMAIN SeriesNames}

\* s.rename(name).to_frame(): one column, one row per observation
to_frame(obs, name) ==
    LET idx == SortedSeq(DOMAIN obs)
    IN  [t \in 1..Len(idx) |->
            [date |-> idx[t], vals |-> [c \in {name} |-> Num(obs[idx[t]])]]]

\* get_macro: the frames concatenated on the union of their dates, then
\* resampled to calendar days
get_macro(data) ==
    LET frames == [i \in 1..Len(SeriesCodes) |->
                     [tbl |-> to_frame(data[SeriesCodes[i]], SeriesNames[SeriesCodes[i]]),
                      cols |-> {SeriesNames[SeriesCodes[i]]}]]
    IN  ResampleDailyFfill(ConcatCols(frames))

\* faulty variant: the join without the forward fill
AssembleNoFill(r, m) == JoinLeft(r, m, MacroCols)

\* main, lines 99-102 with a key: rets.copy().join(macro, how="left").ffill()
Assemble(r, m) == Ffill(JoinLeft(r, m, MacroCols))

\* faulty variant: the macro stage runs whatever the key
HasKeyAlways(k) == TRUE

\* main, line 93 and 101: "if fred_key:"
HasKey(k) == k # ""

-----------------------------------------------------------------------------
(* Inputs: what the collaborators hand to the program                       *)

\* the t-th trading day as a calendar day number: weekends are skipped
TradingDay(t) == t + 2 * ((t - 1) \div 5)

\* a price column of T rows: missing before the listing (the first s rows),
\* then the prices f[t]
Column(T, s, f) == [t \in 1..T |-> IF t <= s THEN NaN ELSE Num(f[t])]

MkPrices(T, aapl, msft) ==
    [t \in 1..T |->
        [date |-> TradingDay(t),
         vals |-> [c \in Tickers |-> IF c = "AAPL" THEN aapl[t] ELSE msft[t]]]]

\* deterministic positive price paths for the columns that are not enumerated
PricePath(m, t) == 1 + ((m * t) % 7)

\* enumerated responses: 0..MaxRows rows (0: the provider returned nothing);
\* AAPL any listing date and any prices of PriceVals, MSFT any listing date;
\* every date of the response has a price of at least one instrument
SmallResponses ==
    {[Close |-> MkPrices(T, a, Column(T, s, [t \in 1..T |-> PricePath(3, t)]))] :
        <<T, a, s>> \in
          UNION {UNION {{<<T, Column(T, sa, f), s>> :
                            s \in {x \in 0..T : x = 0 \/ sa = 0}} :
                          <<sa, f>> \in (0..T) \X [1..T -> PriceVals]} :
                   T \in 0..MaxRows}}

\* long responses: LongRows rows, listing dates around the two momentum horizons
LongOffsets == {0, 1, 2, LongRows - MOM_SHORT - 1, LongRows - MOM_SHORT}
LongResponses ==
    {[Close |-> MkPrices(LongRows,
                         Column(LongRows, sa, [t \in 1..LongRows |-> PricePath(ma, t)]),
                         Column(LongRows, sm, [t \in 1..LongRows |-> PricePath(3, t)]))] :
        <<sa, ma, sm>> \in {x \in LongOffsets \X {1, 2} \X LongOffsets :
                              x[1] = 0 \/ x[3] = 0}}

\* FRED: every observation carries a value that names its indicator and date
ObsValue(code, d) ==
    (CASE code = "FEDFUNDS" -> 10 [] code = "CPIAUCSL" -> 20 [] OTHER -> 30) + d

\* the monthly indicators are observed on some of the odd days, the daily one
\* on any days; each indicator has at least one observation
MonthStarts == {d \in 1..MaxDay : d % 2 = 1}
SeriesInputs ==
    {[code \in DOMAIN SeriesNames |->
        [d \in (CASE code = "FEDFUNDS" -> ff [] code = "CPIAUCSL" -> cp [] OTHER -> dg)
            |-> ObsValue(code, d)]] :
        <<ff, cp, dg>> \in (SUBSET MonthStarts \ {{}}) \X (SUBSET MonthStarts \ {{}})
                           \X (SUBSET (1..MaxDay) \ {{}})}

SampleSeries ==
    [code \in DOMAIN SeriesNames |->
        [d \in (IF code = "DGS10" THEN 1..MaxDay ELSE MonthStarts) |-> ObsValue(code, d)]]

-----------------------------------------------------------------------------
(* main(): one action per statement group                                   *)

Init ==
    /\ env \in {<<>>, <<"">>, <<"key">>}
    /\ pad \in BOOLEAN
    /\ provider \in SmallResponses \cup LongResponses
    /\ series = SampleSeries
    /\ pc = "setup"
    /\ fred_key = ""
    /\ prices = <<>> /\ rets = <<>> /\ macro = <<>> /\ df = <<>>
    /\ mom30 = <<>> /\ mom90 = <<>> /\ vol30 = <<>> /\ features = <<>>
    /\ written = {}
    /\ macro_called = FALSE
    /\ error = ""

\* lines 80-82: ensure_dirs(); load_dotenv(); os.getenv("FRED_API_KEY", "")
Setup ==
    /\ pc = "setup"
    /\ fred_key' = IF env = <<>> THEN "" ELSE env[1]
    /\ pc' = "download"
    /\ UNCHANGED <<env, pad, provider, series, prices, rets, macro, df, mom30,
                   mom90, vol30, features, written, macro_called, error>>

\* lines 85-86
DownloadPrices ==
    /\ pc = "download"
    /\ prices' = download_prices(provider)
    /\ pc' = "write_prices"
    /\ UNCHANGED <<env, pad, provider, series, fred_key, rets, macro, df, mom30,
                   mom90, vol30, features, written, macro_called, error>>

\* line 87
WritePrices ==
    /\ pc = "write_prices"
    /\ written' = written \cup {"prices.csv"}
    /\ pc' = "returns"
    /\ UNCHANGED <<env, pad, provider, series, fred_key, prices, rets, macro, df,
                   mom30, mom90, vol30, features, macro_called, error>>

\* line 89
ComputeReturns ==
    /\ pc = "returns"
    /\ rets' = compute_returns(prices, pad)
    /\ pc' = "write_returns"
    /\ UNCHANGED <<env, pad, provider, series, fred_key, prices, macro, df, mom30,
                   mom90, vol30, features, written, macro_called, error>>

\* line 90
WriteReturns ==
    /\ pc = "write_returns"
    /\ written' = written \cup {"daily_returns.csv"}
    /\ pc' = "macro"
    /\ UNCHANGED <<env, pad, provider, series, fred_key, prices, rets, macro, df,
                   mom30, mom90, vol30, features, macro_called, error>>

\* lines 93-95: with a key, main calls fetch_macro, a name the module never
\* defines: the call raises NameError, nothing catches it and the run ends
MacroStage ==
    /\ pc = "macro"
    /\ IF HasKey(fred_key)
       THEN /\ macro_called' = TRUE
            /\ error' = "NameError"
            /\ pc' = "error"
       ELSE /\ pc' = "join"
            /\ UNCHANGED <<macro_called, error>>
    /\ UNCHANGED <<env, pad, provider, series, fred_key, prices, rets, macro, df,
                   mom30, mom90, vol30, features, written>>

\* lines 99-102
Join ==
    /\ pc = "join"
    /\ df' = IF HasKey(fred_key) THEN Assemble(rets, macro) ELSE rets
    /\ pc' = "factors"
    /\ UNCHANGED <<env, pad, provider, series, fred_key, prices, rets, macro,
                   mom30, mom90, vol30, features, written, macro_called, error>>

\* lines 109-115
Factors ==
    /\ pc = "factors"
    /\ mom30' = RenameCols(PctChange(prices, MOM_SHORT, pad), "_mom30")
    /\ mom90' = RenameCols(PctChange(prices, MOM_LONG, pad), "_mom90")
    /\ vol30' = RenameCols(RollingStd(rets, VOL_WINDOW), "_vol30")
    /\ pc' = "features"
    /\ UNCHANGED <<env, pad, provider, series, fred_key, prices, rets, macro, df,
                   features, written, macro_called, error>>

\* lines 120-121
Features ==
    /\ pc = "features"
    /\ features' = DropnaAll(ConcatCols(
            <<[tbl |-> mom30, cols |-> {c \o "_mom30" : c \in get_universe}],
              [tbl |-> mom90, cols |-> {c \o "_mom90" : c \in get_universe}],
              [tbl |-> vol30, cols |-> {c \o "_vol30" : c \in get_universe}]>>))
    /\ pc' = "write_features"
    /\ UNCHANGED <<env, pad, provider, series, fred_key, prices, rets, macro, df,
                   mom30, mom90, vol30, written, macro_called, error>>

\* line 122
WriteFeatures ==
    /\ pc = "write_features"
    /\ written' = written \cup {"features_basic.csv"}
    /\ pc' = "report"
    /\ UNCHANGED <<env, pad, provider, series, fred_key, prices, rets, macro, df,
                   mom30, mom90, vol30, features, macro_called, error>>

\* lines 126-130
Report ==
    /\ pc = "report"
    /\ pc' = "done"
    /\ UNCHANGED <<env, pad, provider, series, fred_key, prices, rets, macro, df,
                   mom30, mom90, vol30, features, written, macro_called, error>>

Next ==
    \/ Setup \/ DownloadPrices \/ WritePrices \/ ComputeReturns \/ WriteReturns
    \/ MacroStage \/ Join \/ Factors \/ Features \/ WriteFeatures \/ Report

Spec == Init /\ [][Next]_vars

\* main on the enumerated responses only, and run to its end: main is a
\* sequential program, a statement that can run does run
InitShort == Init /\ Len(provider.Close) <= ShortRows
SpecLive == InitShort /\ [][Next]_vars /\ WF_vars(Next)

-----------------------------------------------------------------------------
(* The functions applied on their own: compute_returns, get_macro and the   *)
(* assembly expression of main (lines 99-102), on every input of the        *)
(* bounded sets.  main itself never gets past line 94 with a key.           *)

InitAlign ==
    /\ env = <<"key">>
    /\ pad \in BOOLEAN
    /\ provider \in SmallResponses
    /\ series \in SeriesInputs
    /\ pc = "fn_start"
    /\ fred_key = "key"
    /\ prices = <<>> /\ rets = <<>> /\ macro = <<>> /\ df = <<>>
    /\ mom30 = <<>> /\ mom90 = <<>> /\ vol30 = <<>> /\ features = <<>>
    /\ written = {}
    /\ macro_called = FALSE
    /\ error = ""

ApplyComputeReturns ==
    /\ pc = "fn_start"
    /\ prices' = download_prices(provider)
    /\ rets' = compute_returns(download_prices(provider), pad)
    /\ pc' = "fn_returns"
    /\ UNCHANGED <<env, pad, provider, series, fred_key, macro, df, mom30, mom90,
                   vol30, features, written, macro_called, error>>

ApplyGetMacro ==
    /\ pc = "fn_returns"
    /\ macro' = get_macro(series)
    /\ pc' = "fn_macro"
    /\ UNCHANGED <<env, pad, provider, series, fred_key, prices, rets, df, mom30,
                   mom90, vol30, features, written, macro_called, error>>

ApplyAssemble ==
    /\ pc = "fn_macro"
    /\ df' = Assemble(rets, macro)
    /\ pc' = "fn_joined"
    /\ UNCHANGED <<env, pad, provider, series, fred_key, prices, rets, macro,
                   mom30, mom90, vol30, features, written, macro_called, error>>

NextAlign == ApplyComputeReturns \/ ApplyGetMacro \/ ApplyAssemble

SpecAlign == InitAlign /\ [][NextAlign]_vars

-----------------------------------------------------------------------------
(* Properties                                                               *)

RetsComputed == pc \notin {"setup", "download", "write_prices", "returns", "fn_start"}
FactorsComputed == pc \in {"features", "write_features", "report", "done"}
MacroComputed == pc \in {"fn_macro", "fn_joined"}
NoKey == env = <<>> \/ env = <<"">>
Ended == pc \in {"done", "error"}

\* the integer price in a price cell that is not NaN
Price(tbl, t, c) == tbl[t].vals[c][1]
Observed(tbl, t, c) == ~IsNaN(tbl[t].vals[c])

\* C1: compute_returns yields one row per price date except the first (T-1
\* rows), and every cell at row t is PriceMatrix[t]/PriceMatrix[t-1] - 1.
C1_OneReturnRowPerPriceDate ==
    (RetsComputed /\ Len(prices) >= 1) =>
        /\ Len(rets) = Len(prices) - 1
        /\ \A t \in 2..Len(prices) :
              /\ rets[t - 1].date = prices[t].date
              /\ \A c \in Tickers :
                    rets[t - 1].vals[c] = PctCell(prices[t].vals[c], prices[t - 1].vals[c])

\* C10: a missing or zero predecessor price of instrument i at date t leaves
\* the row of date t in the ReturnMatrix, with an undefined cell at (t, i)
\* and the computed returns of the other instruments.
C10_UndefinedCellOnly ==
    RetsComputed =>
        \A t \in 2..Len(prices) : \A i \in Tickers :
            (~Observed(prices, t - 1, i) \/ prices[t - 1].vals[i] = Num(0)) =>
                /\ prices[t].date \in Dates(rets)
                /\ ~IsFinite(RowAt(rets, prices[t].date).vals[i])
                /\ \A j \in Tickers \ {i} :
                      RowAt(rets, prices[t].date).vals[j]
                          = PctCell(prices[t].vals[j], prices[t - 1].vals[j])

\* C9: nothing is written from an empty provider response.
C9_NothingWrittenFromEmptyResponse ==
    Len(provider.Close) = 0 => written = {}

\* C4: when a key is supplied and the macro stage raises, the run still ends
\* with the daily returns and the basic features written.
C4_MacroFailureKeepsReturnsAndFeatures ==
    (Ended /\ macro_called /\ error # "") =>
        {"daily_returns.csv", "features_basic.csv"} \subseteq written

NoKeySafe ==
    NoKey =>
        /\ ~macro_called
        /\ "macro.csv" \notin written
        /\ error = "" /\ pc # "error"
        /\ pc = "done" =>
              /\ written = {"prices.csv", "daily_returns.csv", "features_basic.csv"}
              /\ df = rets

\* C5: without a key main never calls the macro stage nor writes the macro
\* table, never fails, and the run reaches its end, with prices, returns and
\* features written and the joined dataset equal to the returns.
C5_NoKeyRunCompletes ==
    /\ []NoKeySafe
    /\ NoKey ~> (pc = "done")

C5_Witness ==
    NoKey /\ pc = "done" /\ Len(rets) > 0

\* the cell c is the number (cur - prev) / prev, prev > 0
IsRatioMinusOne(c, cur, prev) ==
    /\ prev > 0
    /\ c[2] > 0
    /\ c[1] * prev = (cur - prev) * c[2]

\* the momentum table m of horizon k, with column suffix sfx, is right: a
\* cell is NaN when fewer than k observed prices of the instrument precede
\* its row, and Price[t]/Price[t-k] - 1 otherwise
MomentumRight(m, k, sfx) ==
    /\ DateSeq(m) = DateSeq(prices)
    /\ \A t \in 1..Len(prices) : \A i \in Tickers :
          LET before == Cardinality({j \in 1..(t - 1) : Observed(prices, j, i)})
              cell == m[t].vals[i \o sfx]
          IN  IF before < k THEN IsNaN(cell)
              ELSE IsRatioMinusOne(cell, Price(prices, t, i), Price(prices, t - k, i))

\* C8: momentum_30 and momentum_90 are undefined while fewer than 30 (90)
\* observed prices of the instrument precede the row, and equal
\* Price[t]/Price[t-k] - 1 afterwards, also for late-listed instruments.
C8_MomentumPerInstrument ==
    FactorsComputed =>
        /\ MomentumRight(mom30, MOM_SHORT, "_mom30")
        /\ MomentumRight(mom90, MOM_LONG, "_mom90")

\* a late-listed instrument whose momentum_90 is undefined on one row of its
\* history and defined on the next
C8_Witness ==
    /\ FactorsComputed
    /\ \E i \in Tickers : \E t \in 2..Len(prices) :
          /\ ~Observed(prices, 1, i)
          /\ Observed(prices, t - 1, i)
          /\ IsNaN(mom90[t - 1].vals[i \o "_mom90"])
          /\ IsFinite(mom90[t].vals[i \o "_mom90"])
          /\ IsFinite(mom30[t].vals[i \o "_mom30"])

\* an indicator's last observation dated <= d, NaN when it has none
LastObservation(data, code, d) ==
    LET past == {o \in DOMAIN data[code] : o <= d}
    IN  IF past = {} THEN NaN ELSE Num(data[code][SetMax(past)])

AllObsDates(data) == UNION {DOMAIN data[code] : code \in DOMAIN data}

\* C2: MacroDaily has every calendar day between the first and the last
\* observation, and each indicator's value on day d is that indicator's own
\* last observation dated <= d, unset when it has none.
C2_MacroDailyIsLastObservation ==
    MacroComputed =>
        /\ Dates(macro) = SetMin(AllObsDates(series))..SetMax(AllObsDates(series))
        /\ \A t \in 1..Len(macro) : \A code \in DOMAIN SeriesNames :
              macro[t].vals[SeriesNames[code]] = LastObservation(series, code, macro[t].date)

\* the observations of data dated <= d
Truncate(data, d) ==
    [code \in DOMAIN data |->
        [o \in {x \in DOMAIN data[code] : x <= d} |-> data[code][o]]]

MacroCells(row) == [c \in MacroCols |-> row.vals[c]]

\* C3: with the observations dated after d removed (every indicator keeping
\* at least one), MacroDaily at d and the macro columns of the joined dataset
\* at a return date d are what they are with all the observations.
C3_NoLookAhead ==
    pc = "fn_joined" =>
        \A d \in 1..MaxDay :
            (\A code \in DOMAIN series : \E o \in DOMAIN series[code] : o <= d) =>
                LET past == get_macro(Truncate(series, d))
                IN  /\ (d \in Dates(macro) /\ d \in Dates(past)) =>
                          MacroCells(RowAt(macro, d)) = MacroCells(RowAt(past, d))
                    /\ d \in Dates(rets) =>
                          MacroCells(RowAt(df, d))
                              = MacroCells(RowAt(Assemble(rets, past), d))

StrictlyAscending(q) == \A a, b \in 1..Len(q) : a < b => q[a] < q[b]
MacroEnd == macro[Len(macro)].date

\* C6: every return column of the joined dataset is cell for cell the column
\* of the ReturnMatrix: the forward fill changes no return cell.
C6_ReturnColumnsUntouched ==
    pc = "fn_joined" =>
        /\ Len(df) = Len(rets)
        /\ \A t \in 1..Len(rets) :
              /\ df[t].date = rets[t].date
              /\ \A c \in Tickers : df[t].vals[c] = rets[t].vals[c]

\* the forward fill has filled a macro cell of a joined dataset of two rows
\* or more
C6_Witness ==
    /\ pc = "fn_joined"
    /\ Len(rets) >= 2
    /\ \E t \in 1..Len(df) : \E c \in MacroCols :
          /\ IsNaN(JoinLeft(rets, macro, MacroCols)[t].vals[c])
          /\ ~IsNaN(df[t].vals[c])
    /\ \E t \in 1..Len(rets) : \E c \in Tickers : ~IsFinite(rets[t].vals[c])

\* C7, as claimed: the joined dataset keeps exactly the return dates, once
\* each and ascending, and its macro columns are undefined on every return
\* date after the last macro date.
C7_UndefinedAfterMacroEnd ==
    pc = "fn_joined" =>
        /\ DateSeq(df) = DateSeq(rets)
        /\ StrictlyAscending(DateSeq(df))
        /\ \A t \in 1..Len(df) : \A c \in MacroCols :
              df[t].date > MacroEnd => IsNaN(df[t].vals[c])

\* C7, amended: the joined dataset keeps exactly the return dates, once each
\* and ascending; on a return date after the last macro date each macro
\* column carries its value at the last return date on or before the last
\* macro date, and is undefined when there is no such return date.
C7_CarriedAfterMacroEnd ==
    pc = "fn_joined" =>
        /\ DateSeq(df) = DateSeq(rets)
        /\ StrictlyAscending(DateSeq(df))
        /\ \A t \in 1..Len(df) : \A c \in MacroCols :
              df[t].date > MacroEnd =>
                  LET inside == {j \in 1..Len(df) : df[j].date <= MacroEnd}
                  IN  df[t].vals[c] = IF inside = {} THEN NaN
                                      ELSE df[SetMax(inside)].vals[c]

\* a return date after the last macro date whose macro cell holds a value
C7_Witness ==
    /\ pc = "fn_joined"
    /\ \E t \in 1..Len(df) : \E c \in MacroCols :
          df[t].date > MacroEnd /\ ~IsNaN(df[t].vals[c])

====
